---- MODULE Spec2Model ----
(***************************************************************************)
(* Camera Scan Controller of src/app/qr-scan/page.tsx (QrScanPage).        *)
(*                                                                         *)
(* The React component's state (useState / useRef), its three effects,     *)
(* its handlers, and the two external collaborators it drives: the         *)
(* platform camera API (getUserMedia / enumerateDevices) and the decoder   *)
(* (BrowserMultiFormatReader: decodeFromVideoDevice returns a promise      *)
(* that page.tsx does not await; reset releases what is bound now).        *)
(***************************************************************************)
EXTENDS Naturals, Integers, Sequences, FiniteSets, TLC

\* ------------------------------------------------------------- bounds
\* Decoder binds that may be in flight or bound at once (slots are reused).
MaxBinds == 2
\* Longest device list enumerateDevices returns.
MaxDevices == 2

\* ------------------------------------------------------------- values
\* JavaScript undefined (selectedDeviceId's initial value, line 10).
Undefined == "undefined"
\* null: no stream (video.srcObject, the reader's stream); bind slots count from 1.
None == 0

BindIds == 1..MaxBinds

\* deviceId values: "" happens for entries the platform does not expose.
DeviceIds == {"", "camA", "camB", "mic"}

\* Labels, as sequences of characters so that the heuristic is computed.
LabelFront == <<"F","r","o","n","t">>
LabelBack == <<"B","a","c","k">>
LabelRear == <<"R","E","A","R">>
LabelEnv == <<"e","n","v","i","r","o","n","m","e","n","t">>
LabelNone == <<>>
Labels == {LabelFront, LabelBack, LabelRear, LabelEnv, LabelNone}

Kinds == {"videoinput", "audioinput"}

\* Failures (thrown values): e.message may be empty, String(e) never is.
PermissionFailure ==
    [message |-> "Permission denied", str |-> "NotAllowedError: Permission denied"]
NamelessFailure == [message |-> "", str |-> "OverconstrainedError"]
Failures == {PermissionFailure, NamelessFailure}

Payloads == {"HELLO", "ABC123"}

CapabilityMessage == "This browser does not support camera access."
CanvasMessage == "Cannot create canvas context"

\* ------------------------------------------------ the rear-camera heuristic
\* String.prototype.toLowerCase on the characters the labels use (the /i flag).
ToLower(c) ==
    CASE c = "B" -> "b" [] c = "A" -> "a" [] c = "C" -> "c" [] c = "K" -> "k"
      [] c = "R" -> "r" [] c = "E" -> "e" [] c = "F" -> "f"
      [] OTHER -> c

LowerCase(label) == [i \in 1..Len(label) |-> ToLower(label[i])]

\* pat occurs in s as a contiguous substring.
Contains(s, pat) ==
    \E i \in 0..(Len(s) - Len(pat)) :
        \A j \in 1..Len(pat) : s[i + j] = pat[j]

RearPatterns == {<<"b","a","c","k">>, <<"r","e","a","r">>,
                 <<"e","n","v","i","r","o","n","m","e","n","t">>}

\* /back|rear|environment/i.test(label)
IsRearLabel(label) == \E p \in RearPatterns : Contains(LowerCase(label), p)

\* JavaScript truthiness of a string | undefined.
Truthy(v) == v # Undefined /\ v # ""

\* a || b
OrElse(a, b) == IF Truthy(a) THEN a ELSE b

\* devices.filter(d => d.kind === 'videoinput')
FilterVideoInputs(devices) ==
    LET RECURSIVE F(_)
        F(ds) == IF ds = <<>> THEN <<>>
                 ELSE IF Head(ds).kind = "videoinput" THEN <<Head(ds)>> \o F(Tail(ds))
                 ELSE F(Tail(ds))
    IN F(devices)

\* videoInputs.find(d => /back|rear|environment/i.test(d.label)): index or 0.
FindBackCam(videoInputs) ==
    IF \E i \in 1..Len(videoInputs) : IsRearLabel(videoInputs[i].label)
    THEN CHOOSE i \in 1..Len(videoInputs) :
            /\ IsRearLabel(videoInputs[i].label)
            /\ \A j \in 1..(i - 1) : ~IsRearLabel(videoInputs[j].label)
    ELSE 0

\* backCam?.deviceId || videoInputs[0]?.deviceId (line 45)
DefaultFallsBackToLast(videoInputs) ==
    LET k == FindBackCam(videoInputs)
        backId == IF k = 0 THEN Undefined ELSE videoInputs[k].deviceId
        lastId == IF Len(videoInputs) > 0 THEN videoInputs[Len(videoInputs)].deviceId
                  ELSE Undefined
    IN OrElse(backId, lastId)
DefaultDeviceId(videoInputs) ==
    LET k == FindBackCam(videoInputs)
        backId == IF k = 0 THEN Undefined ELSE videoInputs[k].deviceId
        firstId == IF Len(videoInputs) > 0 THEN videoInputs[1].deviceId ELSE Undefined
    IN OrElse(backId, firstId)

\* What initDevices hands setCameras (line 42) and setSelectedDeviceId (line 45).
CamerasOf(devices) == FilterVideoInputs(devices)
SelectedFromAllDevices(devices) == DefaultDeviceId(devices)
SelectedOf(devices) == DefaultDeviceId(FilterVideoInputs(devices))

\* e?.message || String(e)
ErrorMessageOnly(e) == e.message
ErrorText(e) == IF e.message # "" THEN e.message ELSE e.str

\* ------------------------------------------------------------- state
VARIABLES
    mounted,              \* the component is mounted (false after teardown)
    videoRef,             \* videoRef.current is the <video> element (line 7, 184)
    readerRef,            \* readerRef.current is a BrowserMultiFormatReader (line 8, 18)
    initPc,               \* initDevices: "gum" | "enum" | "done" (lines 30-54)
    tempStream,           \* initDevices' stream: "none" | "live" | "stopped" (line 37, 49)
    cancelled,            \* line 29
    cameras,              \* line 9
    selectedDeviceId,     \* line 10
    scanning,             \* line 11
    resultText,           \* line 12
    error,                \* line 13
    capturedImage,        \* line 14
    binds,                \* decodeFromVideoDevice calls: [pc, dev, live] per slot
    srcObject,            \* video.srcObject: None or the bind whose stream is attached
    readerStream,         \* the reader's current stream: None or a bind
    stopContinuousDecode, \* the reader's loop flag: "undefined" | "true" | "false"
    lastCall,             \* history: "none" | "start" | "stop", the last of the two called
    lastOp                \* history: the last step taken

vars == <<mounted, videoRef, readerRef, initPc, tempStream, cancelled, cameras,
          selectedDeviceId, scanning, resultText, error, capturedImage, binds,
          srcObject, readerStream, stopContinuousDecode, lastCall, lastOp>>

FreeBind == [pc |-> "free", dev |-> Undefined, live |-> FALSE]

\* The part of the state startScanning, stopScanning and the reader act on.
Cur ==
    [videoRef |-> videoRef, readerRef |-> readerRef, scanning |-> scanning,
     resultText |-> resultText, error |-> error, binds |-> binds,
     srcObject |-> srcObject, readerStream |-> readerStream,
     stopContinuousDecode |-> stopContinuousDecode, lastCall |-> lastCall]

Apply(s) ==
    /\ videoRef' = s.videoRef
    /\ readerRef' = s.readerRef
    /\ scanning' = s.scanning
    /\ resultText' = s.resultText
    /\ error' = s.error
    /\ binds' = s.binds
    /\ srcObject' = s.srcObject
    /\ readerStream' = s.readerStream
    /\ stopContinuousDecode' = s.stopContinuousDecode
    /\ lastCall' = s.lastCall

\* stream.getTracks().forEach(t => t.stop()) on the stream of bind b.
StopTracks(s, b) ==
    [s EXCEPT !.binds[b] = IF @.pc = "ended" THEN FreeBind ELSE [@ EXCEPT !.live = FALSE]]

\* reader.reset(): stops the reader's stream, asks a running loop to stop,
\* and detaches the stream from the video element it attached it to.
\* A decodeFromVideoDevice still waiting for its stream is not cancelled.
Reset(s) ==
    LET s1 == IF s.readerStream # None
              THEN [StopTracks(s, s.readerStream) EXCEPT !.readerStream = None,
                                                          !.srcObject = None]
              ELSE s
    IN [s1 EXCEPT !.stopContinuousDecode = IF @ = "false" THEN "true" ELSE @]

\* stopScanning (lines 94-105)
stopScanning(s) ==
    LET s1 == [s EXCEPT !.scanning = FALSE]
        s2 == IF s1.readerRef THEN Reset(s1) ELSE s1
        s3 == IF s2.videoRef /\ s2.srcObject # None
              THEN [StopTracks(s2, s2.srcObject) EXCEPT !.srcObject = None]
              ELSE s2
    IN [s3 EXCEPT !.lastCall = "stop"]

FreeSlots(s) == {b \in BindIds : s.binds[b].pc = "free"}
NextSlot(s) == CHOOSE b \in FreeSlots(s) : \A c \in FreeSlots(s) : b <= c

\* What the call to decodeFromVideoDevice does before startScanning returns:
\* "pending" (a promise, the usual case) or a thrown failure.
BindOutcomes == {[kind |-> "pending"]} \cup {[kind |-> "throw", e |-> f] : f \in Failures}

\* startScanning (lines 68-92)
StartKeepsResult(s, deviceId, outcome) ==
    IF ~s.videoRef \/ ~s.readerRef THEN s
    ELSE LET s1 == [s EXCEPT !.error = "", !.scanning = TRUE, !.lastCall = "start"]
         IN IF outcome.kind = "pending"
            THEN [s1 EXCEPT !.binds[NextSlot(s)] =
                                [pc |-> "gum", dev |-> deviceId, live |-> FALSE]]
            ELSE [s1 EXCEPT !.error = ErrorText(outcome.e), !.scanning = FALSE]
startScanning(s, deviceId, outcome) ==
    IF ~s.videoRef \/ ~s.readerRef THEN s
    ELSE LET s1 == [s EXCEPT !.error = "", !.resultText = "", !.scanning = TRUE,
                             !.lastCall = "start"]
         IN IF outcome.kind = "pending"
            THEN [s1 EXCEPT !.binds[NextSlot(s)] =
                                [pc |-> "gum", dev |-> deviceId, live |-> FALSE]]
            ELSE [s1 EXCEPT !.error = ErrorText(outcome.e), !.scanning = FALSE]

\* The auto-start effect (lines 60-66) re-run for a changed selectedDeviceId:
\* the previous run's cleanup (registered only when it started scanning), then
\* the new run.
autoStartEffect(s, oldId, newId, outcome) ==
    LET s1 == IF Truthy(oldId) THEN stopScanning(s) ELSE s
    IN IF Truthy(newId) THEN startScanning(s1, newId, outcome) ELSE s1

\* The decode callback (lines 78-86).
CallbackSurfacesNotFound(s, o) ==
    LET s1 == IF o.kind = "decoded" THEN [s EXCEPT !.resultText = o.text] ELSE s
    IN IF o.kind # "decoded" THEN [s1 EXCEPT !.error = ErrorText(o.e)] ELSE s1
CallbackClearsErrorOnResult(s, o) ==
    LET s1 == IF o.kind = "decoded" THEN [s EXCEPT !.resultText = o.text, !.error = ""] ELSE s
    IN IF o.kind \in {"retry", "fault"} THEN [s1 EXCEPT !.error = ErrorText(o.e)] ELSE s1
CallbackStopsOnError(s, o) ==
    LET s1 == IF o.kind = "decoded" THEN [s EXCEPT !.resultText = o.text] ELSE s
    IN IF o.kind \in {"retry", "fault"}
       THEN [s1 EXCEPT !.error = ErrorText(o.e), !.scanning = FALSE]
       ELSE s1
decodeCallback(s, o) ==
    LET s1 == IF o.kind = "decoded" THEN [s EXCEPT !.resultText = o.text] ELSE s
    IN IF o.kind \in {"retry", "fault"} THEN [s1 EXCEPT !.error = ErrorText(o.e)] ELSE s1

NotFoundError == [message |-> "", str |-> "NotFoundException"]

\* What one pass of the decode loop hands the callback: a result, NotFoundException,
\* an error the loop retries after (checksum, format), or one that ends the loop
\* (permission revoked mid-session).
ChecksumError == [message |-> "", str |-> "ChecksumException"]
TickOutcomes ==
    {[kind |-> "decoded", text |-> p] : p \in Payloads}
      \cup {[kind |-> "notFound", e |-> NotFoundError]}
      \cup {[kind |-> "retry", e |-> ChecksumError]}
      \cup {[kind |-> "fault", e |-> PermissionFailure]}

\* Device lists enumerateDevices may return: video inputs of every id and label,
\* and an audio input.
Cam(id, label) == [deviceId |-> id, label |-> label, kind |-> "videoinput"]
Mic == [deviceId |-> "mic", label |-> LabelRear, kind |-> "audioinput"]
Devices == {Cam(id, l) : id \in {"", "camA", "camB"}, l \in Labels} \cup {Mic}
RECURSIVE ListsUpTo(_)
ListsUpTo(n) ==
    IF n = 0 THEN {<<>>}
    ELSE LET shorter == ListsUpTo(n - 1)
         IN shorter \cup {Append(l, d) : l \in {m \in shorter : Len(m) = n - 1}, d \in Devices}
DeviceLists == ListsUpTo(MaxDevices)

\* The lists the scanning specification enumerates: no device at all, and an audio
\* input followed by a front and a back camera.
ScanDeviceLists ==
    {<<>>, <<Mic, Cam("camA", LabelFront), Cam("camB", LabelBack)>>}

\* ------------------------------------------------------------- Init
\* After the first render and its effects: the reader exists (line 18), initDevices
\* has run to its first await or has found no camera capability (lines 32-37), and
\* the auto-start effect has returned at line 61.
Init ==
    /\ mounted = TRUE
    /\ videoRef = TRUE
    /\ readerRef = TRUE
    /\ \E capable \in BOOLEAN :
          /\ initPc = IF capable THEN "gum" ELSE "done"
          /\ error = IF capable THEN "" ELSE CapabilityMessage
    /\ tempStream = "none"
    /\ cancelled = FALSE
    /\ cameras = <<>>
    /\ selectedDeviceId = Undefined
    /\ scanning = FALSE
    /\ resultText = ""
    /\ capturedImage = ""
    /\ binds = [b \in BindIds |-> FreeBind]
    /\ srcObject = None
    /\ readerStream = None
    /\ stopContinuousDecode = "undefined"
    /\ lastCall = "none"
    /\ lastOp = [op |-> "mount", arg |-> ""]

Op(name, arg) == lastOp' = [op |-> name, arg |-> arg]

\* ------------------------------------------------------------- initDevices
\* getUserMedia({video: true}) resolves (line 37).
TempGumResolve ==
    /\ initPc = "gum"
    /\ initPc' = "enum"
    /\ tempStream' = "live"
    /\ Op("TempGumResolve", "")
    /\ UNCHANGED <<mounted, videoRef, readerRef, cancelled, cameras, selectedDeviceId,
                   scanning, resultText, error, capturedImage, binds, srcObject,
                   readerStream, stopContinuousDecode, lastCall>>

\* getUserMedia rejects: the catch of lines 51-53.
TempGumReject(e) ==
    /\ initPc = "gum"
    /\ initPc' = "done"
    /\ error' = IF ~cancelled THEN ErrorText(e) ELSE error
    /\ Op("TempGumReject", "")
    /\ UNCHANGED <<mounted, videoRef, readerRef, tempStream, cancelled, cameras,
                   selectedDeviceId, scanning, resultText, capturedImage, binds,
                   srcObject, readerStream, stopContinuousDecode, lastCall>>

\* enumerateDevices rejects: finally (line 49), then the catch (lines 51-53).
EnumerateRejectKeepsStream(e) ==
    /\ initPc = "enum"
    /\ initPc' = "done"
    /\ error' = IF ~cancelled THEN ErrorText(e) ELSE error
    /\ Op("EnumerateReject", "")
    /\ UNCHANGED <<mounted, videoRef, readerRef, tempStream, cancelled, cameras,
                   selectedDeviceId, scanning, resultText, capturedImage, binds,
                   srcObject, readerStream, stopContinuousDecode, lastCall>>
EnumerateReject(e) ==
    /\ initPc = "enum"
    /\ initPc' = "done"
    /\ tempStream' = "stopped"
    /\ error' = IF ~cancelled THEN ErrorText(e) ELSE error
    /\ Op("EnumerateReject", "")
    /\ UNCHANGED <<mounted, videoRef, readerRef, cancelled, cameras,
                   selectedDeviceId, scanning, resultText, capturedImage, binds,
                   srcObject, readerStream, stopContinuousDecode, lastCall>>

\* enumerateDevices resolves (lines 39-50), then the render it causes and the
\* auto-start effect of the new selectedDeviceId (lines 60-66).
EnumerateResolve(devices, outcome) ==
    /\ initPc = "enum"
    /\ initPc' = "done"
    /\ tempStream' = "stopped"
    /\ Op("EnumerateResolve", "")
    /\ IF cancelled
       THEN UNCHANGED <<cameras, selectedDeviceId, videoRef, readerRef, scanning,
                        resultText, error, binds, srcObject, readerStream,
                        stopContinuousDecode, lastCall>>
       ELSE LET newId == SelectedOf(devices)
            IN /\ cameras' = CamerasOf(devices)
               /\ selectedDeviceId' = newId
               /\ Apply(IF newId # selectedDeviceId
                        THEN autoStartEffect(Cur, selectedDeviceId, newId, outcome)
                        ELSE Cur)
    /\ UNCHANGED <<mounted, cancelled, capturedImage>>

\* ------------------------------------------------------------- the user
\* The options of the camera <select> (lines 153-158) and its disabled state (151).
SelectDisabled == Len(cameras) = 0
OptionValues == {cameras[i].deviceId : i \in 1..Len(cameras)}

\* Start is disabled while scanning or without cameras (line 163).
StartDisabled == scanning \/ Len(cameras) = 0

\* handleDeviceChange (lines 107-110), then the render and the auto-start effect's
\* cleanup and re-run (lines 60-66).
NewSelection(value) == OrElse(value, Undefined)

ChangeDevice(value, outcome) ==
    LET newId == NewSelection(value)
        stopped == IF Truthy(selectedDeviceId) THEN stopScanning(Cur) ELSE Cur
    IN /\ mounted
       /\ ~SelectDisabled
       /\ value \in OptionValues
       /\ newId # selectedDeviceId
       /\ Truthy(newId) => FreeSlots(stopped) # {}
       /\ selectedDeviceId' = newId
       /\ Apply(autoStartEffect(Cur, selectedDeviceId, newId, outcome))
       /\ Op("ChangeDevice", "")
       /\ UNCHANGED <<mounted, initPc, tempStream, cancelled, cameras, capturedImage>>

\* The Start button (lines 160-166).
ClickStart(outcome) ==
    /\ mounted
    /\ ~StartDisabled
    /\ FreeSlots(Cur) # {}
    /\ Apply(startScanning(Cur, selectedDeviceId, outcome))
    /\ Op("ClickStart", outcome.kind)
    /\ UNCHANGED <<mounted, initPc, tempStream, cancelled, cameras, selectedDeviceId,
                   capturedImage>>

\* The Stop button (lines 167-173).
ClickStopClearingImage ==
    /\ mounted
    /\ scanning
    /\ Apply(stopScanning(Cur))
    /\ Op("ClickStop", "")
    /\ capturedImage' = ""
    /\ UNCHANGED <<mounted, initPc, tempStream, cancelled, cameras, selectedDeviceId>>
ClickStop ==
    /\ mounted
    /\ scanning
    /\ Apply(stopScanning(Cur))
    /\ Op("ClickStop", "")
    /\ UNCHANGED <<mounted, initPc, tempStream, cancelled, cameras, selectedDeviceId,
                   capturedImage>>

\* The video element shows a frame: a live stream is attached and has started playing.
HasFrame ==
    /\ srcObject # None
    /\ binds[srcObject].live
    /\ binds[srcObject].pc \in {"loop", "ended"}

EmptyDataUrl == "data:,"
PngDataUrl == "data:image/png;base64"

CaptureOutcomes ==
    {[kind |-> "ok"], [kind |-> "noContext"]} \cup {[kind |-> "throw", e |-> f] : f \in Failures}

\* captureImage (lines 112-131): what it leaves in error and capturedImage.
\* A canvas of width or height 0 encodes as "data:,".
CaptureIgnoresScanning(o) ==
    IF ~videoRef THEN [error |-> error, capturedImage |-> capturedImage]
    ELSE CASE o.kind = "noContext" -> [error |-> CanvasMessage, capturedImage |-> capturedImage]
           [] o.kind = "throw" -> [error |-> ErrorText(o.e), capturedImage |-> capturedImage]
           [] OTHER -> [error |-> error,
                        capturedImage |-> IF HasFrame THEN PngDataUrl ELSE EmptyDataUrl]
captureImage(o) ==
    IF ~videoRef \/ ~scanning THEN [error |-> error, capturedImage |-> capturedImage]
    ELSE CASE o.kind = "noContext" -> [error |-> CanvasMessage, capturedImage |-> capturedImage]
           [] o.kind = "throw" -> [error |-> ErrorText(o.e), capturedImage |-> capturedImage]
           [] OTHER -> [error |-> error,
                        capturedImage |-> IF HasFrame THEN PngDataUrl ELSE EmptyDataUrl]

\* The Capture button (lines 174-180), enabled while scanning.
ClickCapture(o) ==
    /\ mounted
    /\ scanning
    /\ error' = captureImage(o).error
    /\ capturedImage' = captureImage(o).capturedImage
    /\ Op("ClickCapture", "")
    /\ UNCHANGED <<mounted, videoRef, readerRef, initPc, tempStream, cancelled, cameras,
                   selectedDeviceId, scanning, resultText, binds, srcObject,
                   readerStream, stopContinuousDecode, lastCall>>

\* The Clear button of the captured-image panel (lines 201, 212-217).
ClickClear ==
    /\ mounted
    /\ capturedImage # ""
    /\ capturedImage' = ""
    /\ Op("ClickClear", "")
    /\ UNCHANGED <<mounted, videoRef, readerRef, initPc, tempStream, cancelled, cameras,
                   selectedDeviceId, scanning, resultText, error, binds, srcObject,
                   readerStream, stopContinuousDecode, lastCall>>

\* Teardown: React detaches videoRef, then runs the effects' cleanups in order:
\* lines 19-23 (stopScanning, reset, readerRef = null), line 56 (cancelled), and
\* line 64 (stopScanning, when the last auto-start run registered it).
Unmount ==
    LET s1 == stopScanning([Cur EXCEPT !.videoRef = FALSE])
        s2 == [(IF s1.readerRef THEN Reset(s1) ELSE s1) EXCEPT !.readerRef = FALSE]
        s3 == IF Truthy(selectedDeviceId) THEN stopScanning(s2) ELSE s2
    IN /\ mounted
       /\ mounted' = FALSE
       /\ cancelled' = TRUE
       /\ Apply(s3)
       /\ Op("Unmount", "")
       /\ UNCHANGED <<initPc, tempStream, cameras, selectedDeviceId, capturedImage>>

\* ------------------------------------------------------------- the decoder
\* The getUserMedia of a decodeFromVideoDevice resolves: the reader resets itself,
\* attaches the new stream to the video element and waits for it to play.
GumResolve(b) ==
    /\ binds[b].pc = "gum"
    /\ LET s1 == Reset(Cur)
       IN Apply([s1 EXCEPT !.binds[b].pc = "play", !.binds[b].live = TRUE,
                           !.srcObject = b, !.readerStream = b])
    /\ Op("GumResolve", "")
    /\ UNCHANGED <<mounted, initPc, tempStream, cancelled, cameras, selectedDeviceId,
                   capturedImage>>

\* It rejects (unknown device, camera in use, permission revoked): the promise
\* decodeFromVideoDevice returned rejects, and line 75 has dropped that promise.
GumReject(b) ==
    /\ binds[b].pc = "gum"
    /\ binds' = [binds EXCEPT ![b] = FreeBind]
    /\ Op("GumReject", "")
    /\ UNCHANGED <<mounted, videoRef, readerRef, initPc, tempStream, cancelled, cameras,
                   selectedDeviceId, scanning, resultText, error, capturedImage,
                   srcObject, readerStream, stopContinuousDecode, lastCall>>

\* The video element fires 'playing': every bind waiting for it starts its loop.
VideoPlaying ==
    /\ srcObject # None
    /\ binds[srcObject].live
    /\ \E b \in BindIds : binds[b].pc = "play"
    /\ binds' = [b \in BindIds |->
                    IF binds[b].pc = "play" THEN [binds[b] EXCEPT !.pc = "loop"] ELSE binds[b]]
    /\ stopContinuousDecode' = "false"
    /\ Op("VideoPlaying", "")
    /\ UNCHANGED <<mounted, videoRef, readerRef, initPc, tempStream, cancelled, cameras,
                   selectedDeviceId, scanning, resultText, error, capturedImage,
                   srcObject, readerStream, lastCall>>

EndLoop(s, b) ==
    [s EXCEPT !.binds[b] = IF @.live THEN [@ EXCEPT !.pc = "ended"] ELSE FreeBind]

\* A pass of a decode loop that finds it has been asked to stop: the loop ends and
\* clears the request.
LoopStopped(b) ==
    /\ binds[b].pc = "loop"
    /\ stopContinuousDecode = "true"
    /\ Apply(EndLoop([Cur EXCEPT !.stopContinuousDecode = "undefined"], b))
    /\ Op("LoopStopped", "")
    /\ UNCHANGED <<mounted, initPc, tempStream, cancelled, cameras, selectedDeviceId,
                   capturedImage>>

\* Any other pass: it decodes a frame and calls the callback of lines 78-86, and
\* goes on unless the error is fatal.
DecodeTick(b, o) ==
    /\ binds[b].pc = "loop"
    /\ stopContinuousDecode # "true"
    /\ Apply(IF o.kind = "fault" THEN EndLoop(decodeCallback(Cur, o), b)
                                  ELSE decodeCallback(Cur, o))
    /\ Op("DecodeTick", o.kind)
    /\ UNCHANGED <<mounted, initPc, tempStream, cancelled, cameras, selectedDeviceId,
                   capturedImage>>

\* ------------------------------------------------------------- specification
Next ==
    \/ TempGumResolve
    \/ \E e \in Failures : TempGumReject(e)
    \/ \E e \in Failures : EnumerateReject(e)
    \/ \E devices \in ScanDeviceLists, o \in BindOutcomes : EnumerateResolve(devices, o)
    \/ \E value \in DeviceIds, o \in BindOutcomes : ChangeDevice(value, o)
    \/ \E o \in BindOutcomes : ClickStart(o)
    \/ ClickStop
    \/ \E o \in CaptureOutcomes : ClickCapture(o)
    \/ ClickClear
    \/ Unmount
    \/ \E b \in BindIds : GumResolve(b)
    \/ \E b \in BindIds : GumReject(b)
    \/ VideoPlaying
    \/ \E b \in BindIds : LoopStopped(b)
    \/ \E b \in BindIds, o \in TickOutcomes : DecodeTick(b, o)

Spec == Init /\ [][Next]_vars

\* Enumeration and selection over every device list, with the decoder's binds left
\* pending.
NextEnum ==
    \/ TempGumResolve
    \/ \E e \in Failures : TempGumReject(e)
    \/ \E e \in Failures : EnumerateReject(e)
    \/ initPc = "enum" /\ \E devices \in DeviceLists :
                              EnumerateResolve(devices, [kind |-> "pending"])
    \/ \E value \in DeviceIds : ChangeDevice(value, [kind |-> "pending"])
    \/ ClickStart([kind |-> "pending"])
    \/ ClickStop
    \/ Unmount

SpecEnum == Init /\ [][NextEnum]_vars

\* ------------------------------------------------------------- claims
\* Decode loops that go on calling the callback: started, and not asked to stop.
RunningLoops ==
    IF stopContinuousDecode = "true" THEN {} ELSE {b \in BindIds : binds[b].pc = "loop"}
LiveStreams == {b \in BindIds : binds[b].live}
BindsInFlight == {b \in BindIds : binds[b].pc \in {"gum", "play"}}
\* A decode loop is bound to a live video stream.
LoopBound ==
    /\ srcObject # None
    /\ binds[srcObject].live
    /\ \E b \in BindIds : binds[b].pc = "loop"

\* C1: in every reachable state at most one decode loop is running on the video
\* surface and at most one camera stream acquired for it is live.
C1_AtMostOneLoop ==
    /\ Cardinality(RunningLoops) <= 1
    /\ Cardinality(LiveStreams) <= 1

\* C2: from the return of stopScanning until the next startScanning, the video
\* surface has no stream attached and no stream acquired for it is live.
C2_StopReleasesStream ==
    (mounted /\ lastCall = "stop") => (srcObject = None /\ LiveStreams = {})

\* C3: whatever is bound to the video surface is bound for the selected device:
\* after ChangeDevice the old device is no longer bound, nor bound later.
C3_BoundToSelectedDevice ==
    mounted =>
        \A b \in BindIds :
            (binds[b].live \/ b \in RunningLoops) => binds[b].dev = selectedDeviceId

\* C4: once no binding is in progress, scanning is true exactly when a decode loop
\* is bound to a live video stream.
C4_ScanningIffLoopBound ==
    (mounted /\ BindsInFlight = {}) => (scanning <=> LoopBound)

\* C5: a failed binding, thrown by the call or reported by its promise, leaves
\* the failure's description in error and scanning false.
C5_BindFailureReverts ==
    (mounted /\ (lastOp.op = "GumReject" \/ (lastOp.op = "ClickStart" /\ lastOp.arg = "throw")))
        => (error # "" /\ ~scanning)

\* stopScanning twice is stopScanning once.
StopTwiceIsStopOnce == stopScanning(stopScanning(Cur)) = stopScanning(Cur)

\* C6: stopScanning twice is stopScanning once, and called again when a
\* stopScanning has left scanning false it changes nothing.
C6_StopIdempotent ==
    /\ StopTwiceIsStopOnce
    /\ (mounted /\ ~scanning /\ lastCall = "stop") => stopScanning(Cur) = Cur

\* C7: a selectedDeviceId that is set is the deviceId of an entry of cameras.
C7_SelectedIsListed ==
    selectedDeviceId # Undefined =>
        \E i \in 1..Len(cameras) : cameras[i].deviceId = selectedDeviceId

C7_Witness ==
    /\ lastOp.op = "ChangeDevice"
    /\ Len(cameras) = 2
    /\ selectedDeviceId = cameras[2].deviceId
    /\ selectedDeviceId # cameras[1].deviceId

RearEntries == {i \in 1..Len(cameras) : IsRearLabel(cameras[i].label)}
JustEnumerated == lastOp.op = "EnumerateResolve" /\ ~cancelled

\* C8: right after an enumeration that lists an entry with a rear-camera label,
\* selectedDeviceId is the deviceId of the first such entry.
C8_DefaultIsFirstRear ==
    (JustEnumerated /\ RearEntries # {}) =>
        \E i \in RearEntries :
            /\ \A j \in RearEntries : i <= j
            /\ selectedDeviceId = cameras[i].deviceId

\* C9: right after an enumeration that lists no entry with a rear-camera label,
\* selectedDeviceId is the first entry's deviceId; while the list is empty nothing
\* is selected, the selector is disabled and scanning has not been started.
C9_DefaultFallback ==
    /\ (JustEnumerated /\ RearEntries = {} /\ Len(cameras) > 0)
           => selectedDeviceId = cameras[1].deviceId
    /\ Len(cameras) = 0
           => /\ selectedDeviceId = Undefined
              /\ SelectDisabled
              /\ ~scanning
              /\ lastCall # "start"
              /\ \A b \in BindIds : binds[b].pc = "free"

C9_Witness ==
    /\ JustEnumerated
    /\ Len(cameras) = 2
    /\ RearEntries = {}
    /\ cameras[1].deviceId # cameras[2].deviceId
    /\ selectedDeviceId = cameras[1].deviceId

\* C10: a decode callback given NotFoundException changes none of error,
\* resultText, scanning and capturedImage.
C10_NotFoundChangesNothing ==
    [][lastOp' = [op |-> "DecodeTick", arg |-> "notFound"]
          => UNCHANGED <<error, resultText, scanning, capturedImage>>]_vars

C10_Witness ==
    /\ lastOp = [op |-> "DecodeTick", arg |-> "notFound"]
    /\ scanning
    /\ error # ""
    /\ resultText # ""
    /\ capturedImage # ""

\* Steps in which startScanning ran to its end (it clears resultText and error).
StartSteps == {"EnumerateResolve", "ChangeDevice", "ClickStart"}

\* C11: a decode callback given a result with text p sets resultText to p and
\* leaves error and scanning unchanged; resultText changes in no other step than
\* such a callback or a startScanning, which clears it.
C11_DecodedSetsResultText ==
    [][/\ lastOp' = [op |-> "DecodeTick", arg |-> "decoded"]
             => \A b \in BindIds, p \in Payloads :
                   DecodeTick(b, [kind |-> "decoded", text |-> p])
                       => (resultText' = p /\ UNCHANGED <<error, scanning>>)
       /\ resultText' # resultText
             => \/ lastOp' = [op |-> "DecodeTick", arg |-> "decoded"]
                \/ (lastOp'.op \in StartSteps /\ lastCall' = "start" /\ resultText' = "")]_vars

C11_Witness ==
    /\ lastOp = [op |-> "DecodeTick", arg |-> "decoded"]
    /\ resultText = "ABC123"
    /\ error # ""
    /\ scanning

C13_StartScanning ==
    \A d \in DeviceIds \cup {Undefined} :
        IF videoRef /\ readerRef
        THEN FreeSlots(Cur) # {} =>
                LET s == startScanning(Cur, d, [kind |-> "pending"])
                IN /\ s.error = ""
                   /\ s.resultText = ""
                   /\ s.scanning
                   /\ \E b \in FreeSlots(Cur) :
                         /\ s.binds[b] = [pc |-> "gum", dev |-> d, live |-> FALSE]
                         /\ \A c \in BindIds \ {b} : s.binds[c] = binds[c]
        ELSE \A o \in BindOutcomes : startScanning(Cur, d, o) = Cur

C13_Witness ==
    /\ lastOp = [op |-> "ClickStart", arg |-> "pending"]
    /\ scanning
    /\ error = ""
    /\ resultText = ""
    /\ capturedImage # ""
    /\ \E b \in BindIds : binds[b].pc = "gum" /\ binds[b].dev = selectedDeviceId

\* C14: a capture taken while scanning but before the video element shows a
\* frame does not set capturedImage.
C14_CaptureNeedsFrame ==
    [][(lastOp'.op = "ClickCapture" /\ scanning /\ ~HasFrame)
          => capturedImage' = capturedImage]_vars

\* C15: captureImage called while scanning is false changes neither
\* capturedImage nor error (resultText and scanning are not assigned by it),
\* whatever the canvas would do and whether or not a frame is showing.
C15_CaptureWhileIdle ==
    ~scanning => \A o \in CaptureOutcomes :
                    captureImage(o) = [error |-> error, capturedImage |-> capturedImage]

C15_Witness ==
    /\ mounted
    /\ ~scanning
    /\ lastCall = "stop"
    /\ HasFrame
    /\ capturedImage = ""

\* C16: when initDevices fails while the component is mounted, error becomes the
\* failure's description and cameras and selectedDeviceId stay empty and
\* undefined; once initDevices is over with no cameras, cameras stays empty,
\* selectedDeviceId undefined, Start and the selector stay disabled, and
\* startScanning is never called, so scanning stays false.
C16_EnumerationFailure ==
    [][/\ (lastOp'.op \in {"TempGumReject", "EnumerateReject"} /\ mounted')
             => /\ error' \in {"Permission denied", "OverconstrainedError"}
                /\ cameras' = <<>>
                /\ selectedDeviceId' = Undefined
       /\ (initPc = "done" /\ tempStream = "none" /\ mounted) => error # ""
       /\ (initPc = "done" /\ cameras = <<>>)
             => /\ cameras' = <<>>
                /\ selectedDeviceId' = Undefined
                /\ ~scanning'
                /\ lastCall' # "start"
                /\ \A b \in BindIds : binds'[b] = FreeBind]_vars

C16_Witness ==
    /\ lastOp.op = "EnumerateReject"
    /\ mounted
    /\ error = "OverconstrainedError"
    /\ tempStream = "stopped"
    /\ StartDisabled
    /\ SelectDisabled

\* C17: after teardown scanning is false, no decode loop runs, no stream is
\* attached to the video element and no stream a decodeFromVideoDevice call
\* acquired is live.
C17_TeardownReleasesAll ==
    ~mounted => /\ ~scanning
                /\ RunningLoops = {}
                /\ srcObject = None
                /\ LiveStreams = {}

\* C18 as stated: a step that starts or stops scanning leaves capturedImage empty.
C18_LifecycleClearsImage ==
    lastOp.op \in {"ClickStart", "ClickStop", "ChangeDevice"} => capturedImage = ""

\* C18 amended: the Clear button empties capturedImage, and capturedImage
\* changes in no step other than Clear and a capture; starting and stopping
\* scanning, device changes, decode callbacks and teardown keep it.
C18_OnlyClearClearsImage ==
    [][/\ lastOp'.op = "ClickClear" => capturedImage' = ""
       /\ capturedImage' # capturedImage => lastOp'.op \in {"ClickClear", "ClickCapture"}
       /\ (capturedImage # "" /\ capturedImage' = "") => lastOp'.op = "ClickClear"]_vars

C18_Witness ==
    /\ lastOp.op = "ClickStop"
    /\ ~scanning
    /\ capturedImage = PngDataUrl

\* The step calls startScanning without calling stopScanning before it: the
\* Start button, or the auto-start effect run for a selectedDeviceId that
\* replaces an empty or undefined one (no cleanup is registered for those).
StartNotAfterStop ==
    \/ lastOp'.op = "ClickStart"
    \/ /\ lastOp'.op \in {"ChangeDevice", "EnumerateResolve"}
       /\ ~Truthy(selectedDeviceId)
       /\ Truthy(selectedDeviceId')

\* C19: startScanning is never called when the last of startScanning and
\* stopScanning to have been called is startScanning.
C19_StopBetweenStarts ==
    [][StartNotAfterStop => lastCall # "start"]_vars

\* C20: the step that ends initDevices after its getUserMedia resolved leaves
\* the temporary stream stopped, and the stream is live at no other time than
\* between the two; a step of initDevices taken after teardown leaves cameras,
\* selectedDeviceId and error as they were.
C20_TempStreamStopped ==
    [][/\ (initPc = "enum" /\ initPc' = "done") => tempStream' = "stopped"
       /\ tempStream' = "live" <=> initPc' = "enum"
       /\ (cancelled /\ initPc' # initPc)
             => UNCHANGED <<cameras, selectedDeviceId, error, scanning, binds>>]_vars

C20_Witness ==
    /\ ~mounted
    /\ lastOp.op = "EnumerateReject"
    /\ tempStream = "stopped"
    /\ error = ""
    /\ cameras = <<>>

====
